---------------------------- MODULE Spec2Model ----------------------------
(***************************************************************************)
(* Model of models/Segmentation/u_net.py: the training loop train_model    *)
(* (specification Spec), the shape arithmetic of UNet.forward and          *)
(* UpConv.forward (specification SpecNet) and the BurnDataset adapter with *)
(* the mask-to-label conversion (specification SpecData).                  *)
(***************************************************************************)
EXTENDS Integers, Sequences, FiniteSets, TLC

VARIABLES
    \* ---- train_model: arguments
    epochs, n_batches, n_train, batch_size, n_val, lr0,
    \* ---- train_model: locals, model, optimizer and scheduler state
    pc, epoch, batch, global_step, mode, grad, n_opt,
    lr, best, num_bad_epochs, last_epoch,
    val_i, val_run_loss, val_loss, err, returned,
    \* ---- train_model: history of the run (what happened, not program state)
    val_steps, streak,
    \* ---- UNet.forward / UpConv.forward: the call, its arguments, its position
    \* and the feature maps (shapes) computed so far
    ncall, bilinear, n_channels, n_classes, input, npc, stage, feats, x, u,
    logits,
    \* ---- BurnDataset: the two directories, the object's fields, the call
    \* and its result, and the label train_model casts the mask to
    inputs_files, masks_files, dpc, data, index, result, mask_px, ground_t,
    label

trainVars == <<epochs, n_batches, n_train, batch_size, n_val, lr0,
               pc, epoch, batch, global_step, mode, grad, n_opt,
               lr, best, num_bad_epochs, last_epoch,
               val_i, val_run_loss, val_loss, err, returned,
               val_steps, streak>>

netVars == <<ncall, bilinear, n_channels, n_classes, input, npc, stage, feats,
             x, u, logits>>

dataVars == <<inputs_files, masks_files, dpc, data, index, result, mask_px,
              ground_t, label>>

vars == <<trainVars, netVars, dataVars>>

---------------------------------------------------------------------------
(* Bounds of the model *)

MaxEpochs == 2
MaxBatches == 2
MaxK == 2
MaxNVal == 1
GradMax == 25
MaxN == 2
MaxSize == 33
MaxClasses == 2
MaxLow == 3
MaxSkip == 8
MaxPixel == 255

---------------------------------------------------------------------------
(* Program constants *)

\* nn.utils.clip_grad_value_(model.parameters(), 0.1); gradients are counted
\* in units of 0.01
ClipValue == 10

\* the 10 of n_train // (10 * batch_size)
ValDivisor == 10

\* a variant of the patience: one check less
PatienceOne == 2 - 1

\* ReduceLROnPlateau(optimizer, 'min', patience=2)
Patience == 2

\* ReduceLROnPlateau defaults: factor = 0.1 (a division by 10), threshold =
\* 1e-4 in mode 'rel' (a loss is better when a < best * (1 - 1/10000)),
\* eps = 1e-8 (100 units of 1e-10, the unit learning rates are counted in).
FactorDen == 10
ThresholdDen == 10000
Eps == 100

\* float('inf'), the scheduler's initial best: above every loss of the model
Inf == 1000000000

---------------------------------------------------------------------------
(* Input domains *)

\* the parameters of the network that hold a gradient
Params == {"weight", "bias"}

\* what one backward pass can add to a parameter's gradient (units of 0.01)
GradValues == {-GradMax, -(ClipValue + 1), 0, ClipValue, GradMax}

\* the loss of one validation batch
LossValues == {0, ThresholdDen - 1, ThresholdDen}

\* learning rates in units of 1e-10: 1e-3 (the script's) and 1e-8
LrValues == {10000000, 100}

\* n_channels: grayscale and RGB inputs
ChannelValues == {1, 3}

\* batch sizes: 1 and the script's 4
BatchSizes == {1, 4}

\* n_train for a batch size: just below 10 * batch_size (interval 0), the
\* multiples of 10 * batch_size (intervals 1 .. MaxK) and just below the
\* next multiple
NTrainValues(bs) ==
    {ValDivisor * bs * q : q \in 1..MaxK}
        \cup {ValDivisor * bs - 1, ValDivisor * bs * (MaxK + 1) - 1}

---------------------------------------------------------------------------
(* train_model *)

\* a variant of the interval that is never 0: one more than the quotient
ValIntervalSkew(n, bs) == (n \div (ValDivisor * bs)) + 1

\* n_train // (10 * batch_size)
ValInterval(n, bs) == n \div (ValDivisor * bs)

\* torch.clamp(g, -clip, clip), per component
Clamp(g, c) == IF g > c THEN c ELSE IF g < -c THEN -c ELSE g

\* a variant that leaves the gradients as they are
NoClip(gs, c) == gs

\* nn.utils.clip_grad_value_(parameters, clip_value)
ClipGradValue(gs, c) == [p \in DOMAIN gs |-> Clamp(gs[p], c)]

\* ReduceLROnPlateau.is_better, mode 'min', threshold_mode 'rel'
IsBetter(a, b) ==
    IF b = Inf THEN TRUE ELSE a * ThresholdDen < b * (ThresholdDen - 1)

\* ReduceLROnPlateau._reduce_lr: new_lr = max(lr * factor, min_lr = 0),
\* assigned only if old_lr - new_lr > eps
ReduceLr(old) ==
    LET new == old \div FactorDen
    IN  IF old - new > Eps THEN new ELSE old

TrainInit ==
    /\ epochs \in 0..MaxEpochs
    /\ n_batches \in 0..MaxBatches
    /\ batch_size \in BatchSizes
    /\ n_train \in NTrainValues(batch_size)
    /\ n_val \in 0..MaxNVal
    /\ lr0 \in LrValues
    /\ pc = "epoch_start"
    /\ epoch = 0
    /\ batch = 0
    /\ global_step = 0
    /\ mode = "train"
    /\ grad = [p \in Params |-> 0]
    /\ n_opt = 0
    /\ lr = lr0
    /\ best = Inf
    /\ num_bad_epochs = 0
    /\ last_epoch = 0
    /\ val_i = 0
    /\ val_run_loss = 0
    /\ val_loss = 0
    /\ err = "none"
    /\ returned = FALSE
    /\ val_steps = {}
    /\ streak = 0

cfgVars == <<epochs, n_batches, n_train, batch_size, n_val, lr0>>
histVars == <<val_steps, streak>>
schedVars == <<lr, best, num_bad_epochs, last_epoch>>
valVars == <<val_i, val_run_loss, val_loss>>

\* a variant of the epoch loop that runs one epoch more
EpochStartOffByOne ==
    /\ pc = "epoch_start"
    /\ IF epoch <= epochs
       THEN /\ mode' = "train"
            /\ batch' = 0
            /\ pc' = "fetch"
            /\ UNCHANGED returned
       ELSE /\ pc' = "done"
            /\ returned' = TRUE
            /\ UNCHANGED <<mode, batch>>
    /\ UNCHANGED <<netVars, dataVars, cfgVars, histVars, schedVars, valVars,
                   epoch, global_step, grad, n_opt, err>>

\* for epoch in range(epochs): model.train(); after the loop writer.close()
\* and return model
EpochStart ==
    /\ pc = "epoch_start"
    /\ IF epoch < epochs
       THEN /\ mode' = "train"
            /\ batch' = 0
            /\ pc' = "fetch"
            /\ UNCHANGED returned
       ELSE /\ pc' = "done"
            /\ returned' = TRUE
            /\ UNCHANGED <<mode, batch>>
    /\ UNCHANGED <<netVars, dataVars, cfgVars, histVars, schedVars, valVars, epoch, global_step,
                   grad, n_opt, err>>

\* for images, masks in train_dataloader
Fetch ==
    /\ pc = "fetch"
    /\ IF batch < n_batches
       THEN /\ batch' = batch + 1
            /\ pc' = "forward"
            /\ UNCHANGED epoch
       ELSE /\ epoch' = epoch + 1
            /\ pc' = "epoch_start"
            /\ UNCHANGED batch
    /\ UNCHANGED <<netVars, dataVars, cfgVars, histVars, schedVars, valVars, global_step, mode,
                   grad, n_opt, err, returned>>

\* predictions = model(images); loss = criterion(predictions, masks)
Forward ==
    /\ pc = "forward"
    /\ pc' = "zero_grad"
    /\ UNCHANGED <<netVars, dataVars, cfgVars, histVars, schedVars, valVars, epoch, batch,
                   global_step, mode, grad, n_opt, err, returned>>

\* optimizer.zero_grad()
ZeroGrad ==
    /\ pc = "zero_grad"
    /\ grad' = [p \in Params |-> 0]
    /\ pc' = "backward"
    /\ UNCHANGED <<netVars, dataVars, cfgVars, histVars, schedVars, valVars, epoch, batch,
                   global_step, mode, n_opt, err, returned>>

\* loss.backward(): accumulates into the gradients
Backward ==
    /\ pc = "backward"
    /\ \E g \in [Params -> GradValues] :
          grad' = [p \in Params |-> grad[p] + g[p]]
    /\ pc' = "clip"
    /\ UNCHANGED <<netVars, dataVars, cfgVars, histVars, schedVars, valVars, epoch, batch,
                   global_step, mode, n_opt, err, returned>>

\* nn.utils.clip_grad_value_(model.parameters(), 0.1)
Clip ==
    /\ pc = "clip"
    /\ grad' = ClipGradValue(grad, ClipValue)
    /\ pc' = "opt_step"
    /\ UNCHANGED <<netVars, dataVars, cfgVars, histVars, schedVars, valVars, epoch, batch,
                   global_step, mode, n_opt, err, returned>>

\* optimizer.step(): the one place the parameters change
OptStep ==
    /\ pc = "opt_step"
    /\ n_opt' = n_opt + 1
    /\ pc' = "inc"
    /\ UNCHANGED <<netVars, dataVars, cfgVars, histVars, schedVars, valVars, epoch, batch,
                   global_step, mode, grad, err, returned>>

\* global_step += 1
IncStep ==
    /\ pc = "inc"
    /\ global_step' = global_step + 1
    /\ pc' = "check"
    /\ UNCHANGED <<netVars, dataVars, cfgVars, histVars, schedVars, valVars, epoch, batch,
                   mode, grad, n_opt, err, returned>>

\* if global_step % (n_train // (10 * batch_size)) == 0: model.eval();
\* val_run_loss = 0
Check ==
    /\ pc = "check"
    /\ LET k == ValInterval(n_train, batch_size)
       IN  IF k = 0
           THEN /\ pc' = "error"
                /\ err' = "ZeroDivisionError:interval"
                /\ UNCHANGED <<mode, val_run_loss, val_i, val_steps>>
           ELSE IF global_step % k = 0
           THEN /\ mode' = "eval"
                /\ val_run_loss' = 0
                /\ val_i' = 0
                /\ val_steps' = val_steps \cup {global_step}
                /\ pc' = "val_fetch"
                /\ UNCHANGED err
           ELSE /\ pc' = "fetch"
                /\ UNCHANGED <<mode, val_run_loss, val_i, val_steps, err>>
    /\ UNCHANGED <<netVars, dataVars, cfgVars, schedVars, epoch, batch, global_step, grad,
                   n_opt, returned, val_loss, streak>>

\* for val_images, val_masks in val_dataloader
ValFetch ==
    /\ pc = "val_fetch"
    /\ IF val_i < n_val
       THEN /\ val_i' = val_i + 1
            /\ pc' = "val_forward"
       ELSE /\ pc' = "val_end"
            /\ UNCHANGED val_i
    /\ UNCHANGED <<netVars, dataVars, cfgVars, histVars, schedVars, epoch, batch, global_step,
                   mode, grad, n_opt, err, returned, val_run_loss,
                   val_loss>>

\* with torch.no_grad(): val_predictions = model(val_images);
\* val_run_loss += criterion(val_predictions, val_masks).item()
ValForward ==
    /\ pc = "val_forward"
    /\ \E l \in LossValues : val_run_loss' = val_run_loss + l
    /\ pc' = "val_fetch"
    /\ UNCHANGED <<netVars, dataVars, cfgVars, histVars, schedVars, epoch, batch, global_step,
                   mode, grad, n_opt, err, returned, val_i, val_loss>>

\* a variant that leaves the network in evaluation mode
ModeAfterValidationStuck == "eval"

\* model.train() after the validation loop
ModeAfterValidation == "train"

ValEnd ==
    /\ pc = "val_end"
    /\ mode' = ModeAfterValidation
    /\ pc' = "val_mean"
    /\ UNCHANGED <<netVars, dataVars, cfgVars, histVars, schedVars, valVars, epoch, batch,
                   global_step, grad, n_opt, err, returned>>

\* val_loss = val_run_loss / n_val. The mean is kept as its numerator: n_val
\* is fixed for the run, so two means compare as their numerators do, and
\* the scheduler only compares them (with a relative threshold).
ValMean ==
    /\ pc = "val_mean"
    /\ IF n_val = 0
       THEN /\ pc' = "error"
            /\ err' = "ZeroDivisionError:n_val"
            /\ UNCHANGED val_loss
       ELSE /\ val_loss' = val_run_loss
            /\ pc' = "sched"
            /\ UNCHANGED err
    /\ UNCHANGED <<netVars, dataVars, cfgVars, histVars, schedVars, epoch, batch, global_step,
                   mode, grad, n_opt, returned, val_i, val_run_loss>>

\* scheduler.step(val_loss): ReduceLROnPlateau.step with cooldown = 0
SchedulerStep ==
    /\ pc = "sched"
    /\ last_epoch' = last_epoch + 1
    /\ LET better == IsBetter(val_loss, best)
           bad == IF better THEN 0 ELSE num_bad_epochs + 1
       IN  /\ best' = IF better THEN val_loss ELSE best
           /\ IF bad > Patience
              THEN /\ lr' = ReduceLr(lr)
                   /\ num_bad_epochs' = 0
              ELSE /\ lr' = lr
                   /\ num_bad_epochs' = bad
           /\ streak' = IF better THEN 0 ELSE streak + 1
    /\ pc' = "log"
    /\ UNCHANGED <<netVars, dataVars, cfgVars, valVars, epoch, batch, global_step, mode, grad,
                   n_opt, err, returned, val_steps>>

\* writer.add_scalar('learning_rate', ...), add_scalar('Loss/validation',
\* ...), add_images(...): nothing of the run's state changes
Log ==
    /\ pc = "log"
    /\ pc' = "fetch"
    /\ UNCHANGED <<netVars, dataVars, cfgVars, histVars, schedVars, valVars, epoch, batch,
                   global_step, mode, grad, n_opt, err, returned>>

---------------------------------------------------------------------------
(* Shapes of tensors (N, C, H, W) and of the library layers the blocks use *)

Shape(n, c, h, w) == [ok |-> TRUE, n |-> n, c |-> c, h |-> h, w |-> w]

\* the result of a layer that raised (a channel or size mismatch)
Bad == [ok |-> FALSE, n |-> 0, c |-> 0, h |-> 0, w |-> 0]

\* nn.Conv2d(cin, cout, kernel_size=k, stride=1, padding=p)
Conv2d(s, cin, cout, k, p) ==
    IF s.ok /\ s.c = cin /\ s.h + 2 * p >= k /\ s.w + 2 * p >= k
    THEN Shape(s.n, cout, s.h + 2 * p - k + 1, s.w + 2 * p - k + 1)
    ELSE Bad

\* nn.BatchNorm2d(c) followed by nn.ReLU: the shape is kept
BatchNormReLU(s, c) == IF s.ok /\ s.c = c THEN s ELSE Bad

\* nn.MaxPool2d(kernel_size=2, stride=2): floor((size - 2) / 2) + 1, and an
\* error when that is below 1
MaxPool2d(s) ==
    IF s.ok /\ s.h >= 2 /\ s.w >= 2
    THEN Shape(s.n, s.c, (s.h - 2) \div 2 + 1, (s.w - 2) \div 2 + 1)
    ELSE Bad

\* nn.Upsample(scale_factor=2, mode="bilinear", align_corners=True)
Upsample(s) == IF s.ok THEN Shape(s.n, s.c, 2 * s.h, 2 * s.w) ELSE Bad

\* nn.ConvTranspose2d(cin, cout, kernel_size=2, stride=2)
ConvTranspose2d(s, cin, cout) ==
    IF s.ok /\ s.c = cin
    THEN Shape(s.n, cout, (s.h - 1) * 2 + 2, (s.w - 1) * 2 + 2)
    ELSE Bad

\* f.pad(x, [left, right, top, bottom]): the last dimension first; a
\* negative amount crops
Pad(s, p) ==
    IF s.ok /\ s.h + p[3] + p[4] >= 0 /\ s.w + p[1] + p[2] >= 0
    THEN Shape(s.n, s.c, s.h + p[3] + p[4], s.w + p[1] + p[2])
    ELSE Bad

\* torch.cat([a, b], dim=1): every other dimension must agree
Cat(a, b) ==
    IF a.ok /\ b.ok /\ a.n = b.n /\ a.h = b.h /\ a.w = b.w
    THEN Shape(a.n, a.c + b.c, a.h, a.w)
    ELSE Bad

\* two Conv2d(3x3, padding 1) -> BatchNorm2d -> ReLU, cin -> mid -> cout
ConvBlock(s, cin, mid, cout) ==
    BatchNormReLU(Conv2d(BatchNormReLU(Conv2d(s, cin, mid, 3, 1), mid),
                         mid, cout, 3, 1), cout)

---------------------------------------------------------------------------
(* The blocks of the network *)

\* DoubleConv.forward
DoubleConv(s, cin, cout) == ConvBlock(s, cin, cout, cout)

\* DownConv.forward
DownConv(s, cin, cout) == ConvBlock(MaxPool2d(s), cin, cout, cout)

\* OutConv.forward: Conv2d(kernel_size=1)
OutConv(s, cin, cout) == Conv2d(s, cin, cout, 1, 0)

\* UpConv.__init__: the in_channels of self.conv's first convolution
UpConvIn(cin) == cin

\* UpConv.forward, line 128: x1 = self.up(x1)
UpConvUp(x1, cin, bil) ==
    IF bil THEN Upsample(x1) ELSE ConvTranspose2d(x1, cin, cin \div 2)

\* a variant of the padding list with the odd pixel on the leading edge
PadSplitLeading(dw, dh) ==
    <<dw - dw \div 2, dw \div 2, dh - dh \div 2, dh \div 2>>

\* UpConv.forward, line 131: the padding list of f.pad for the differences
\* dif_w and dif_h
PadSplit(dw, dh) == <<dw \div 2, dw - dw \div 2, dh \div 2, dh - dh \div 2>>

\* UpConv.forward, with what it computed on the way
UpConvForward(x1, x2, cin, cout, bil) ==
    LET up == UpConvUp(x1, cin, bil)
        dif_h == x2.h - up.h
        dif_w == x2.w - up.w
        pad == PadSplit(dif_w, dif_h)
        padded == Pad(up, pad)
        cat == Cat(x2, padded)
        mid == IF bil THEN cin \div 2 ELSE cout
    IN  [x1 |-> x1, x2 |-> x2, up |-> up, dif_h |-> dif_h, dif_w |-> dif_w,
         pad |-> pad, padded |-> padded, cat |-> cat,
         conv_in |-> UpConvIn(cin),
         out |-> ConvBlock(cat, UpConvIn(cin), mid, cout)]

\* a variant of the factor that ignores the mode
FactorOne(bil) == 1

\* UNet.__init__: factor = 2 if bilinear else 1
Factor(bil) == IF bil THEN 2 ELSE 1

\* UNet.__init__: the (in_channels, out_channels) of down1..down4
DownCfg(d, bil) ==
    CASE d = 1 -> <<64, 128>>
      [] d = 2 -> <<128, 256>>
      [] d = 3 -> <<256, 512>>
      [] d = 4 -> <<512, 1024 \div Factor(bil)>>

\* UNet.__init__: the (in_channels, out_channels) of up1..up4
UpCfg(st, bil) ==
    CASE st = 1 -> <<1024, 512 \div Factor(bil)>>
      [] st = 2 -> <<512, 256 \div Factor(bil)>>
      [] st = 3 -> <<256, 128 \div Factor(bil)>>
      [] st = 4 -> <<128, 64>>

\* UNet.forward, lines 194-197: up1 takes x4, up2 x3, up3 x2, up4 x1
SkipIndex(st) == 5 - st

\* no call of UpConv.forward made yet
NoUp == [x1 |-> Bad, x2 |-> Bad, up |-> Bad, dif_h |-> 0, dif_w |-> 0,
         pad |-> <<0, 0, 0, 0>>, padded |-> Bad, cat |-> Bad, conv_in |-> 0,
         out |-> Bad]

---------------------------------------------------------------------------
(* UNet.forward and UpConv.forward as calls *)

\* a call of UNet(n_channels, n_classes, bilinear).forward(input), or of
\* UpConv(*UpCfg(stage), bilinear).forward(feats[2], feats[1]) on its own
NetInit ==
    /\ bilinear \in BOOLEAN
    /\ n_channels \in ChannelValues
    /\ n_classes \in 1..MaxClasses
    /\ x = Bad
    /\ u = NoUp
    /\ logits = Bad
    /\ \/ /\ ncall = "UNet"
          /\ \E n \in 1..MaxN, h \in 1..MaxSize, w \in 1..MaxSize :
                input = Shape(n, n_channels, h, w)
          /\ npc = "l1"
          /\ stage = 0
          /\ feats = [i \in 1..5 |-> Bad]
       \/ /\ ncall = "UpConv"
          /\ n_channels = 3
          /\ n_classes = 1
          /\ input = Bad
          /\ npc = "upconv"
          /\ stage \in 1..4
          /\ \E h1 \in 1..MaxLow, w1 \in 1..MaxLow,
                h2 \in 1..MaxSkip, w2 \in 1..MaxSkip :
                feats = [i \in 1..5 |->
                           IF i = 1
                           THEN Shape(1, UpCfg(stage, bilinear)[1] \div 2,
                                      h2, w2)
                           ELSE IF i = 2
                           THEN Shape(1, UpCfg(stage, bilinear)[1] \div 2,
                                      h1, w1)
                           ELSE Bad]

netCfg == <<ncall, bilinear, n_channels, n_classes, input>>

\* x1 = self.l1(x)
NetL1 ==
    /\ npc = "l1"
    /\ LET r == DoubleConv(input, n_channels, 64)
       IN  /\ feats' = [feats EXCEPT ![1] = r]
           /\ npc' = IF r.ok THEN "down" ELSE "error"
           /\ stage' = 1
    /\ UNCHANGED <<trainVars, dataVars, netCfg, x, u, logits>>

\* x2 = self.down1(x1) ... x5 = self.down4(x4)
NetDown ==
    /\ npc = "down"
    /\ LET cfg == DownCfg(stage, bilinear)
           r == DownConv(feats[stage], cfg[1], cfg[2])
       IN  /\ feats' = [feats EXCEPT ![stage + 1] = r]
           /\ IF ~r.ok
              THEN npc' = "error" /\ UNCHANGED <<stage, x>>
              ELSE IF stage = 4
              THEN npc' = "up" /\ stage' = 1 /\ x' = r
              ELSE npc' = "down" /\ stage' = stage + 1 /\ UNCHANGED x
    /\ UNCHANGED <<trainVars, dataVars, netCfg, u, logits>>

\* x = self.up1(x5, x4) ... x = self.up4(x, x1)
NetUp ==
    /\ npc = "up"
    /\ LET cfg == UpCfg(stage, bilinear)
           r == UpConvForward(x, feats[SkipIndex(stage)], cfg[1], cfg[2],
                              bilinear)
       IN  /\ u' = r
           /\ IF ~r.out.ok
              THEN npc' = "error" /\ UNCHANGED <<stage, x>>
              ELSE IF stage = 4
              THEN npc' = "out" /\ x' = r.out /\ UNCHANGED stage
              ELSE npc' = "up" /\ stage' = stage + 1 /\ x' = r.out
    /\ UNCHANGED <<trainVars, dataVars, netCfg, feats, logits>>

\* logits = self.out(x); return logits
NetOut ==
    /\ npc = "out"
    /\ LET r == OutConv(x, 64, n_classes)
       IN  /\ logits' = r
           /\ npc' = IF r.ok THEN "done" ELSE "error"
    /\ UNCHANGED <<trainVars, dataVars, netCfg, stage, feats, x, u>>

\* UpConv.forward(x1, x2) called on its own
UpConvCall ==
    /\ npc = "upconv"
    /\ LET cfg == UpCfg(stage, bilinear)
           r == UpConvForward(feats[2], feats[1], cfg[1], cfg[2], bilinear)
       IN  /\ u' = r
           /\ x' = r.out
           /\ npc' = IF r.out.ok THEN "done" ELSE "error"
    /\ UNCHANGED <<trainVars, dataVars, netCfg, stage, feats, logits>>

NetNext ==
    \/ NetL1
    \/ NetDown
    \/ NetUp
    \/ NetOut
    \/ UpConvCall

---------------------------------------------------------------------------
(* BurnDataset, and the cast of its masks to class labels *)

\* file names as their dot-separated parts: a.png, a.b.png, b.jpg, b.png
InputNames == {<<"a", "png">>, <<"a", "b", "png">>, <<"b", "jpg">>,
               <<"b", "png">>}
MaskNames == {<<"a", "png">>, <<"a", "b", "png">>, <<"b", "png">>}

\* os.listdir(dir): the entries of the directory, in any order
ListDir(dir) ==
    {q \in [1..Cardinality(dir) -> dir] :
        \A i, j \in 1..Cardinality(dir) : i # j => q[i] # q[j]}

\* BurnDataset.__len__
DatasetLen(d) == Len(d)

\* __getitem__, line 53: self.data[index].split(".")[0]
FileName(name) == name[1]

\* __getitem__, lines 54-55: file_name + ".png"
PngFile(file_name) == <<file_name, "png">>

\* __getitem__, line 60: np.array(mask) / 255, an exact quotient
MaskToFloat(v) == [num |-> v, den |-> 255]

\* a variant of the cast that rounds to the nearest integer
ToLongRounding(q) == (2 * q.num + q.den) \div (2 * q.den)

\* train_model, lines 222 and 243: masks.to(device, dtype=torch.long), the
\* truncation of a float toward zero
ToLong(q) ==
    IF q.num >= 0 THEN q.num \div q.den ELSE -((-q.num) \div q.den)

\* the two directories hold any of the names
DataInit ==
    /\ inputs_files \in SUBSET InputNames
    /\ masks_files \in SUBSET MaskNames
    /\ dpc = "new"
    /\ data = <<>>
    /\ index = 0
    /\ result = "none"
    /\ mask_px = 0
    /\ ground_t = [num |-> 0, den |-> 1]
    /\ label = 0

\* BurnDataset.__init__
Construct ==
    /\ dpc = "new"
    /\ data' \in ListDir(inputs_files)
    /\ dpc' = "ready"
    /\ UNCHANGED <<trainVars, netVars, inputs_files, masks_files, index,
                   result, mask_px, ground_t, label>>

\* BurnDataset.__getitem__(index), for an index the loader's sampler draws
\* (0 .. len - 1); the pixel of the mask file is read when it is opened.
\* The object keeps no state between calls, so one call is followed here.
GetItem ==
    /\ dpc = "ready"
    /\ \E i \in 0..(DatasetLen(data) - 1) :
          /\ index' = i
          /\ LET file_name == FileName(data[i + 1])
             IN  IF PngFile(file_name) \notin inputs_files
                 THEN /\ result' = "FileNotFoundError:input"
                      /\ dpc' = "failed"
                      /\ UNCHANGED <<mask_px, ground_t>>
                 ELSE IF PngFile(file_name) \notin masks_files
                 THEN /\ result' = "FileNotFoundError:mask"
                      /\ dpc' = "failed"
                      /\ UNCHANGED <<mask_px, ground_t>>
                 ELSE /\ \E v \in 0..MaxPixel :
                            /\ mask_px' = v
                            /\ ground_t' = MaskToFloat(v)
                      /\ result' = "ok"
                      /\ dpc' = "got"
    /\ UNCHANGED <<trainVars, netVars, inputs_files, masks_files, data, label>>

\* train_model, lines 222 and 243: the mask of the batch becomes the integer
\* class label the loss receives
CastMask ==
    /\ dpc = "got"
    /\ label' = ToLong(ground_t)
    /\ dpc' = "cast"
    /\ UNCHANGED <<trainVars, netVars, inputs_files, masks_files, data, index,
                   result, mask_px, ground_t>>

DataNext ==
    \/ Construct
    \/ GetItem
    \/ CastMask

\* no network call in progress
NetIdle ==
    /\ ncall = "none"
    /\ bilinear = TRUE
    /\ n_channels = 3
    /\ n_classes = 1
    /\ input = Bad
    /\ npc = "idle"
    /\ stage = 0
    /\ feats = [i \in 1..5 |-> Bad]
    /\ x = Bad
    /\ u = NoUp
    /\ logits = Bad

\* no training run in progress
TrainIdle ==
    /\ epochs = 0
    /\ n_batches = 0
    /\ n_train = 0
    /\ batch_size = 1
    /\ n_val = 0
    /\ lr0 = 0
    /\ pc = "idle"
    /\ epoch = 0
    /\ batch = 0
    /\ global_step = 0
    /\ mode = "train"
    /\ grad = [p \in Params |-> 0]
    /\ n_opt = 0
    /\ lr = 0
    /\ best = Inf
    /\ num_bad_epochs = 0
    /\ last_epoch = 0
    /\ val_i = 0
    /\ val_run_loss = 0
    /\ val_loss = 0
    /\ err = "none"
    /\ returned = FALSE
    /\ val_steps = {}
    /\ streak = 0

\* no dataset in use
DataIdle ==
    /\ inputs_files = {}
    /\ masks_files = {}
    /\ dpc = "idle"
    /\ data = <<>>
    /\ index = 0
    /\ result = "none"
    /\ mask_px = 0
    /\ ground_t = [num |-> 0, den |-> 1]
    /\ label = 0

---------------------------------------------------------------------------
(* Specifications *)

Next ==
    \/ EpochStart
    \/ Fetch
    \/ Forward
    \/ ZeroGrad
    \/ Backward
    \/ Clip
    \/ OptStep
    \/ IncStep
    \/ Check
    \/ ValFetch
    \/ ValForward
    \/ ValEnd
    \/ ValMean
    \/ SchedulerStep
    \/ Log

Init == TrainInit /\ NetIdle /\ DataIdle

Spec == Init /\ [][Next]_vars

InitNet == NetInit /\ TrainIdle /\ DataIdle

SpecNet == InitNet /\ [][NetNext]_vars

InitData == DataInit /\ TrainIdle /\ NetIdle

SpecData == InitData /\ [][DataNext]_vars

---------------------------------------------------------------------------
(* Properties of train_model, checked under Spec *)

\* floor(n_train / (10 * batch_size)), as the specification words it
FloorInterval == n_train \div (10 * batch_size)

\* g is a multiple of k (no g >= 1 is a multiple of 0)
IsMultiple(g, k) == \E m \in 0..g : g = m * k

\* the global steps whose interval check has been made
DecidedSteps ==
    1..(IF pc \in {"check"} THEN global_step - 1 ELSE global_step)

\* the program counters of a validation round, from model.eval() to the log
ValPcs == {"val_fetch", "val_forward", "val_end", "val_mean", "sched", "log"}

\* C1: validation triggers exactly once every k = floor(n_train / (10 *
\* batch_size)) global steps: a validation round has started right after the
\* batch that brought global_step to g if and only if g is a multiple of k,
\* for every g whose check has been made.
C1_ValidationCadence ==
    val_steps = {g \in DecidedSteps : IsMultiple(g, FloorInterval)}

\* a run that has ended after four batches with rounds at steps 2 and 4 only
C1_Witness ==
    /\ pc = "done"
    /\ FloorInterval = 2
    /\ global_step = 4
    /\ val_steps = {2, 4}

\* C4: every optimizer step consumes only gradients clipped to [-0.1, 0.1]
\* (10 units of 0.01), whatever the backward pass produced: the parameters
\* change only in a state where every gradient component is within the
\* bound.
C4_ClippedWhenConsumed ==
    [][n_opt' # n_opt =>
          \A p \in Params : grad[p] <= 10 /\ grad[p] >= -10]_vars

\* an optimizer step about to consume gradients that the clipping brought
\* down to 0.1 and up to -0.1 (no backward pass of the model yields -0.1)
C4_Witness ==
    /\ pc = "opt_step"
    /\ n_opt >= 1
    /\ grad["weight"] = 10
    /\ grad["bias"] = -10

\* C5 as stated: at the second of two consecutive validation rounds that do
\* not improve on the best loss, the learning rate is reduced (looked at
\* where a division by 10 lowers the rate by more than the scheduler's eps,
\* so that a reduction, if made, shows).
C5_ReducedAtSecond ==
    [][(pc = "sched" /\ streak = 1 /\ val_loss >= best
          /\ lr - lr \div 10 > 100) => lr' < lr]_vars

\* C5, amended: the learning rate changes only at scheduler steps, and a
\* scheduler step reduces it exactly at every third consecutive round whose
\* loss is not below best * (1 - 1e-4); the reduction is a division by 10,
\* applied when it lowers the rate by more than 1e-8 (100 units of 1e-10).
C5_ReducedAtThird ==
    [][IF pc = "sched" /\ streak' > 0 /\ streak' % 3 = 0
       THEN lr' = (IF lr - lr \div 10 > 100 THEN lr \div 10 ELSE lr)
       ELSE lr' = lr]_vars

\* the rate has just been reduced, at the third non-improving round in a row
C5_Witness ==
    /\ pc = "log"
    /\ streak = 3
    /\ lr0 = 10000000
    /\ lr = 1000000

\* C7: every validation forward pass runs in evaluation mode and every
\* training forward pass in training mode; the parameters change only by
\* the optimizer step, once per batch; and nothing between entering and
\* leaving a validation round steps the optimizer or touches the gradients.
C7_ModesAndMutation ==
    /\ [](/\ pc = "val_forward" => mode = "eval"
          /\ pc = "forward" => mode = "train"
          /\ n_opt \in {global_step, global_step + 1})
    /\ [][/\ n_opt' # n_opt => (pc = "opt_step" /\ n_opt' = n_opt + 1)
          /\ pc \in ValPcs => (n_opt' = n_opt /\ grad' = grad)]_vars

\* the forward pass of the batch that follows a validation round in the same
\* epoch
C7_Witness ==
    /\ pc = "forward"
    /\ mode = "train"
    /\ batch >= 2
    /\ global_step \in val_steps

\* C8: without an error the run ends exactly when the epochs are exhausted:
\* it is never stuck before that, it returns after epochs * n_batches
\* optimizer steps with global_step = epochs * n_batches, and global_step
\* only ever grows, by 1.
C8_RunsAllEpochs ==
    /\ [](/\ pc = "done" => /\ epoch = epochs
                            /\ global_step = epochs * n_batches
                            /\ n_opt = epochs * n_batches
                            /\ returned
          /\ pc \notin {"done", "error"} => ENABLED Next
          /\ returned => pc = "done")
    /\ [][global_step' = global_step \/ global_step' = global_step + 1]_vars

\* a run that ended after 2 epochs of 2 batches although the learning rate
\* had been reduced on the way
C8_Witness ==
    /\ pc = "done"
    /\ global_step = 4
    /\ epochs = 2
    /\ lr < lr0

\* C9: when n_train < 10 * batch_size and there is a first training batch,
\* the run aborts with a division by zero at the interval check of that
\* batch: after one optimizer step, with global_step = 1, without any
\* validation round or scheduler step and without returning. When n_train
\* >= 10 * batch_size the interval check never raises.
C9_ZeroInterval ==
    /\ (n_train < 10 * batch_size /\ epochs >= 1 /\ n_batches >= 1) =>
          /\ pc # "done"
          /\ ~returned
          /\ global_step <= 1
          /\ n_opt <= 1
          /\ val_steps = {}
          /\ last_epoch = 0
          /\ global_step = 1 => pc \in {"check", "error"}
          /\ pc = "error" => /\ err = "ZeroDivisionError:interval"
                             /\ global_step = 1
                             /\ n_opt = 1
    /\ n_train >= 10 * batch_size => err # "ZeroDivisionError:interval"

\* the run has aborted at the interval check of its first batch
C9_Witness ==
    /\ pc = "error"
    /\ err = "ZeroDivisionError:interval"
    /\ n_train = 10 * batch_size - 1
    /\ global_step = 1

---------------------------------------------------------------------------
(* Properties of UNet.forward and UpConv.forward, checked under SpecNet *)

\* the decoder stage whose UpConv.forward ran last in a UNet.forward
LastStage == IF npc = "up" THEN stage - 1 ELSE 4

\* 2 ^ e for the depths of the network
Pow2(e) == CASE e = 0 -> 1 [] e = 1 -> 2 [] e = 2 -> 4 [] e = 3 -> 8

---------------------------------------------------------------------------
(* Properties of BurnDataset and of the labels, checked under SpecData *)

\* the name without its extension (its last part), and the mask of that stem
Stem(name) == SubSeq(name, 1, Len(name) - 1)
MaskOf(name) == Stem(name) \o <<"png">>

\* C6 as stated: construction never fails and len() is the number of entries
\* of the inputs directory; get(index) fails with a missing-file error when
\* the mask of the input file name at that index is absent, and returns a
\* pair when the input a.png has its mask a.png.
C6_LazyMatching ==
    /\ dpc # "new" => DatasetLen(data) = Cardinality(inputs_files)
    /\ dpc \in {"got", "cast", "failed"} =>
          /\ MaskOf(data[index + 1]) \notin masks_files =>
                result \in {"FileNotFoundError:input",
                            "FileNotFoundError:mask"}
          /\ (data[index + 1] = <<"a", "png">>
                /\ <<"a", "png">> \in masks_files) => result = "ok"

\* C10: for every 8-bit mask pixel v the label the loss receives is
\* floor(v / 255): 1 for v = 255 and 0 otherwise, so it is a valid class
\* index whenever n_classes >= 2.
C10_BinaryLabels ==
    (dpc = "cast" /\ mask_px \in 0..255) =>
        /\ label = (IF mask_px = 255 THEN 1 ELSE 0)
        /\ label \in {0, 1}
        /\ label < 2

\* the label of a mask pixel 254 is 0
C10_Witness ==
    /\ dpc = "cast"
    /\ mask_px = 254
    /\ label = 0

=============================================================================
